---- MODULE Spec2Model ----
(***************************************************************************)
(* Model of python/inference/inference.py: the InferenceEngine class, its  *)
(* config-driven model builder, weight loader, shape validation and the    *)
(* prediction operations.                                                  *)
(*                                                                         *)
(* Python values are encoded as follows.                                   *)
(*   - Optional[X]: None is the empty sequence, a present x is <<x>>.      *)
(*   - a dict is a TLA+ function whose DOMAIN is the dict's key set, so    *)
(*     `k in d` is k \in DOMAIN d and d[k] on a missing key is a KeyError. *)
(*   - a JSON scalar or list inside a layer's params is a tagged value     *)
(*     (IntV, StrV, ListV) so that int()/float() coercion can fail.        *)
(*   - a raised exception is the name of its class in an `err` field; ""   *)
(*     means no exception.                                                 *)
(***************************************************************************)
EXTENDS Integers, Sequences, FiniteSets, TLC

VARIABLES config, model, info, last, pre, loadedOnce, saved, loadThread, predictThread

vars == <<config, model, info, last, pre, loadedOnce, saved, loadThread, predictThread>>

None == <<>>

Some(x) == <<x>>

IsNone(o) == o = <<>>

Get(o) == o[1]

(***************************************************************************)
(* Bounds of the model.                                                    *)
(***************************************************************************)
MaxLayers == 3

MaxRuns == 2

MaxBatch == 2

MaxK == 3

MaxLogit == 1

MaxLatency == 1

(***************************************************************************)
(* JSON values found in a layer's params.                                  *)
(***************************************************************************)
IntV(n) == [t |-> "int", n |-> n, s |-> ""]

StrV(s) == [t |-> "str", n |-> 0, s |-> s]

ListV(n) == [t |-> "list", n |-> n, s |-> ""]

\* int(v) / float(v): a number converts, a non-numeric string raises
\* ValueError, a list raises TypeError.
coerce(v) ==
  IF v.t = "int" THEN ""
  ELSE IF v.t = "str" THEN "ValueError"
  ELSE "TypeError"

\* The first exception raised while the required parameters are read in the
\* order the constructor call evaluates them.  reqs is a sequence of
\* <<key, how>> with how = "int" when the value goes through int()/float()
\* and "raw" when it is only subscripted.
RECURSIVE read_params(_, _)
read_params(params, reqs) ==
  IF reqs = <<>> THEN ""
  ELSE LET key == reqs[1][1]
           how == reqs[1][2]
       IN IF key \notin DOMAIN params THEN "KeyError"
          ELSE IF how = "int" /\ coerce(params[key]) # "" THEN coerce(params[key])
          ELSE read_params(params, Tail(reqs))

(***************************************************************************)
(* Executable stages (torch.nn modules).  One record shape for all kinds:  *)
(* a, b are the two integer hyper-parameters of the kind (in/out features, *)
(* in/out channels, pool size/stride, rate, size), act the activation of a *)
(* composite nn.Sequential(Linear, activation).                            *)
(***************************************************************************)
Stage(kind, a, b, act) == [kind |-> kind, a |-> a, b |-> b, act |-> act]

Activations == {"ReLU", "Sigmoid", "Tanh", "Softmax", "GELU"}

\* _create_activation: dict.get on the table of the five known names.
create_activation(name) ==
  IF name.t = "str" /\ name.s \in Activations THEN Some(name.s) ELSE None

\* len() of a module: only containers (nn.Sequential) define __len__.
module_len(stage) == IF stage.kind = "Composite" THEN 2 ELSE 1

\* Truth value of `layer` in `if layer:`: None is false, a container is
\* true iff it is non-empty, any other module is true.
truthy(layerOpt) ==
  IF IsNone(layerOpt) THEN FALSE
  ELSE IF Get(layerOpt).kind = "Composite" THEN module_len(Get(layerOpt)) > 0
  ELSE TRUE

Raise(e) == [err |-> e, stage |-> None]

Return(stageOpt) == [err |-> "", stage |-> stageOpt]

create_layer_dense(params) ==
  LET e == read_params(params, << <<"input_size", "int">>, <<"output_size", "int">> >>)
  IN IF e # "" THEN Raise(e)
     ELSE LET a == params["input_size"].n
              b == params["output_size"].n
          IN IF "activation" \in DOMAIN params
                /\ ~IsNone(create_activation(params["activation"]))
             THEN Return(Some(Stage("Composite", a, b,
                                    Get(create_activation(params["activation"])))))
             ELSE Return(Some(Stage("Linear", a, b, "")))

create_layer_conv2d(params) ==
  LET e == read_params(params, << <<"kernel_size", "raw">>, <<"in_channels", "int">>,
                                  <<"out_channels", "int">>, <<"stride", "int">>,
                                  <<"padding", "raw">> >>)
  IN IF e # "" THEN Raise(e)
     \* nn.Conv2d rejects a kernel_size that is a string and a padding
     \* string other than 'same' / 'valid'
     ELSE IF params["kernel_size"].t = "str" THEN Raise("TypeError")
     ELSE IF params["padding"].t = "str" /\ params["padding"].s \notin {"same", "valid"}
          THEN Raise("ValueError")
     ELSE Return(Some(Stage("Conv2d", params["in_channels"].n,
                            params["out_channels"].n, "")))

create_layer_maxpool2d(params) ==
  LET e == read_params(params, << <<"pool_size", "raw">>, <<"stride", "int">>,
                                  <<"padding", "raw">> >>)
  IN IF e # "" THEN Raise(e)
     ELSE Return(Some(Stage("MaxPool2d", params["pool_size"].n,
                            params["stride"].n, "")))

create_layer_dropout(params) ==
  LET e == read_params(params, << <<"rate", "int">> >>)
  IN IF e # "" THEN Raise(e)
     \* rates are held in percent; nn.Dropout raises outside [0, 1]
     ELSE IF params["rate"].n < 0 \/ params["rate"].n > 100 THEN Raise("ValueError")
     ELSE Return(Some(Stage("Dropout", params["rate"].n, 0, "")))

create_layer_batchnorm(params) ==
  LET e == read_params(params, << <<"size", "int">> >>)
  IN IF e # "" THEN Raise(e)
     ELSE Return(Some(Stage("BatchNorm1d", params["size"].n, 0, "")))

\* _create_layer: both subscripts are evaluated before the dispatch on the
\* type, so an entry without 'type' or without 'params' raises KeyError
\* whatever its type is.
create_layer(entry) ==
  IF "type" \notin DOMAIN entry THEN Raise("KeyError")
  ELSE IF "params" \notin DOMAIN entry THEN Raise("KeyError")
  ELSE LET layer_type == entry["type"]
           params == entry["params"]
       IN CASE layer_type = "Dense" -> create_layer_dense(params)
            [] layer_type = "Conv2D" -> create_layer_conv2d(params)
            [] layer_type = "MaxPool2D" -> create_layer_maxpool2d(params)
            [] layer_type = "Flatten" -> Return(Some(Stage("Flatten", 0, 0, "")))
            [] layer_type = "Dropout" -> create_layer_dropout(params)
            [] layer_type = "BatchNorm" -> create_layer_batchnorm(params)
            [] OTHER -> Return(None)

\* layers.append(layer) of the builder's loop.
append_layer_reversed(layers, layer) == <<layer>> \o layers

append_layer(layers, layer) == Append(layers, layer)

\* The loop of _build_model_from_config over config['layers'], from entry i
\* on, with the stages collected so far.
RECURSIVE build_loop(_, _, _)
build_loop(entries, i, layers) ==
  IF i > Len(entries) THEN [err |-> "", stages |-> layers]
  ELSE LET r == create_layer(entries[i])
       IN IF r.err # "" THEN [err |-> r.err, stages |-> <<>>]
          ELSE IF truthy(r.stage)
               THEN build_loop(entries, i + 1, append_layer(layers, Get(r.stage)))
               ELSE build_loop(entries, i + 1, layers)

\* _build_model_from_config on the dict held in self.config.
build_model_from_config(cfg) ==
  IF "layers" \notin DOMAIN cfg THEN [err |-> "KeyError", stages |-> <<>>]
  ELSE build_loop(cfg["layers"], 1, <<>>)

(***************************************************************************)
(* Parameter state of a pipeline (nn.Module.state_dict).  An entry is      *)
(* named by the index of the stage in the outer nn.Sequential, the index   *)
(* inside a composite stage (-1 when the stage is not a container) and the *)
(* parameter name, and carries the parameter's shape.                      *)
(***************************************************************************)
Entry(idx, sub, name, shape) == [idx |-> idx, sub |-> sub, name |-> name, shape |-> shape]

stage_entries(i, st) ==
  CASE st.kind = "Linear" ->
         {Entry(i - 1, -1, "weight", <<st.b, st.a>>), Entry(i - 1, -1, "bias", <<st.b>>)}
    [] st.kind = "Composite" ->
         {Entry(i - 1, 0, "weight", <<st.b, st.a>>), Entry(i - 1, 0, "bias", <<st.b>>)}
    [] st.kind = "Conv2d" ->
         {Entry(i - 1, -1, "weight", <<st.b, st.a>>), Entry(i - 1, -1, "bias", <<st.b>>)}
    [] st.kind = "BatchNorm1d" ->
         {Entry(i - 1, -1, nm, <<st.a>>) :
            nm \in {"weight", "bias", "running_mean", "running_var"}}
         \cup {Entry(i - 1, -1, "num_batches_tracked", <<>>)}
    [] OTHER -> {}

state_entries(stages) == UNION {stage_entries(i, stages[i]) : i \in 1..Len(stages)}

\* nn.Sequential(*layers) as built at line 39: parameters default-initialized,
\* training mode on, not yet moved to the device.  builtFrom and loader are
\* history fields: the config dict the stages were derived from and which
\* branch of the weight loader has completed on this module.
new_module(stages, cfg) ==
  [stages |-> stages,
   params |-> [e \in state_entries(stages) |-> "init"],
   training |-> TRUE,
   placed |-> FALSE,
   builtFrom |-> cfg,
   loader |-> "none"]

(***************************************************************************)
(* The files the engine is pointed at.                                     *)
(***************************************************************************)
Dense(a, b) == [type |-> "Dense", params |-> [input_size |-> IntV(a), output_size |-> IntV(b)]]

DenseAct(a, b, act) ==
  [type |-> "Dense",
   params |-> [input_size |-> IntV(a), output_size |-> IntV(b), activation |-> StrV(act)]]

DocA ==
  [version |-> "1.0", input_shape |-> <<1, 2>>, classes |-> <<"x", "y">>,
   layers |-> <<DenseAct(2, 2, "Softmax")>>]

DocB ==
  [version |-> "1.0", input_shape |-> <<1, 3>>,
   layers |-> <<DenseAct(3, 2, "ReLU"),
                [type |-> "Attention", params |-> [heads |-> IntV(2)]],
                [type |-> "Dropout", params |-> [rate |-> IntV(20)]]>>]

DocNoLayers == [version |-> "1.0", input_shape |-> <<1, 2>>]

DocNoShape == [version |-> "1.0", layers |-> <<Dense(2, 2)>>]

DocBadLayer ==
  [version |-> "1.0", input_shape |-> <<1, 2>>,
   layers |-> <<[type |-> "Dense", params |-> [input_size |-> IntV(2)]]>>]

DocBN ==
  [version |-> "1.0", input_shape |-> <<1, 2>>, classes |-> <<"x", "y">>,
   layers |-> <<Dense(2, 2), [type |-> "BatchNorm", params |-> [size |-> IntV(2)]]>>]

ConfigPaths ==
  {"a.json", "b.json", "nolayers.json", "badlayer.json", "noshape.json",
   "absent.json", "broken.json"}

config_kind(path) ==
  CASE path = "absent.json" -> "absent"
    [] path = "broken.json" -> "malformed"
    [] OTHER -> "dict"

config_doc(path) ==
  CASE path = "a.json" -> DocA
    [] path = "b.json" -> DocB
    [] path = "nolayers.json" -> DocNoLayers
    [] path = "badlayer.json" -> DocBadLayer
    [] path = "noshape.json" -> DocNoShape
    [] path = "bn.json" -> DocBN

EmptyDict == <<>>

\* A weights file: absent, a torch.save'd state dict (vals maps each entry to
\* the value stored for it), or a JSON text.
Blob(kind, vals) == [kind |-> kind, vals |-> vals]

\* The state dict of the pipeline a config builds, every entry holding the
\* trained value named id.
trained(doc, id) ==
  Blob("native", [e \in state_entries(build_model_from_config(doc).stages) |-> id])

\* The state dict the test fixture saves for the architecture of DocA: a
\* flat nn.Sequential(Linear, activation), whose entries are named by the
\* position in that one container ('0.weight', not '0.0.weight').
flat(doc, id) ==
  Blob("native",
       [e \in {Entry(x.idx, -1, x.name, x.shape) :
                 x \in state_entries(build_model_from_config(doc).stages)} |-> id])

WeightPaths == {"a.pth", "b.pth", "flat.pth", "go.json", "absent.pth", "saved.pth"}

\* savedOpt is what save_model has written to 'saved.pth', if anything.
weights_file(path, savedOpt) ==
  CASE path = "a.pth" -> trained(DocA, "wa")
    [] path = "b.pth" -> trained(DocB, "wb")
    [] path = "flat.pth" -> flat(DocA, "wf")
    [] path = "go.json" -> Blob("json", EmptyDict)
    [] path = "saved.pth" ->
         IF IsNone(savedOpt) THEN Blob("absent", EmptyDict) ELSE Get(savedOpt).file
    [] OTHER -> Blob("absent", EmptyDict)

(***************************************************************************)
(* Weight loader.                                                          *)
(***************************************************************************)
\* nn.Module.load_state_dict (strict): every entry of the module that the
\* blob holds with the same shape is copied in place; a missing key, an
\* unexpected key or a shape mismatch is then reported as a RuntimeError.
load_state_dict(m, blob) ==
  LET own == state_entries(m.stages)
      copied == [e \in own |-> IF e \in DOMAIN blob.vals THEN blob.vals[e] ELSE m.params[e]]
  IN [err |-> IF own = DOMAIN blob.vals THEN "" ELSE "RuntimeError",
      module |-> [m EXCEPT !.params = copied]]

\* _load_weights_from_json: `pass`.
load_weights_from_json(m, weights_data) == m

\* _load_weights: torch.load + load_state_dict under a bare except, then the
\* JSON fallback, whose open() and json.load() are not guarded.
load_weights(m, blob) ==
  IF blob.kind = "native" /\ load_state_dict(m, blob).err = ""
  THEN [err |-> "", module |-> [load_state_dict(m, blob).module EXCEPT !.loader = "native"]]
  ELSE LET m1 == IF blob.kind = "native" THEN load_state_dict(m, blob).module ELSE m
       IN CASE blob.kind = "absent" -> [err |-> "FileNotFoundError", module |-> m1]
            \* a torch zip archive is not JSON text
            [] blob.kind = "native" -> [err |-> "UnicodeDecodeError", module |-> m1]
            [] blob.kind = "json" ->
                 [err |-> "",
                  module |-> [load_weights_from_json(m1, blob) EXCEPT !.loader = "json"]]

(***************************************************************************)
(* load_model, statement by statement, on the pair of engine fields        *)
(* e = [config, model].  Each step returns the exception raised (or "")    *)
(* and the fields as the statement leaves them.                            *)
(***************************************************************************)
Engine(c, m) == [config |-> c, model |-> m]

\* line 19: self.config = self._load_config(config_path)
set_config(e, cpath) ==
  CASE config_kind(cpath) = "absent" -> [err |-> "FileNotFoundError", e |-> e]
    [] config_kind(cpath) = "malformed" -> [err |-> "JSONDecodeError", e |-> e]
    [] OTHER -> [err |-> "", e |-> [e EXCEPT !.config = Some(config_doc(cpath))]]

\* line 20: self.model = self._build_model_from_config()
set_model(e) ==
  LET r == build_model_from_config(Get(e.config))
  IN IF r.err # "" THEN [err |-> r.err, e |-> e]
     ELSE [err |-> "", e |-> [e EXCEPT !.model = Some(new_module(r.stages, Get(e.config)))]]

\* line 21: self._load_weights(weights_path)
bind_weights(e, blob) ==
  LET r == load_weights(Get(e.model), blob)
  IN [err |-> r.err, e |-> [e EXCEPT !.model = Some(r.module)]]

\* line 22: self.model.to(self.device)
to_device(m) == [m EXCEPT !.placed = TRUE]

place_model(e) == [err |-> "", e |-> [e EXCEPT !.model = Some(to_device(Get(e.model)))]]

\* line 23: self.model.eval()
eval_mode_skipped(m) == m

eval_mode(m) == [m EXCEPT !.training = FALSE]

set_eval(e) == [err |-> "", e |-> [e EXCEPT !.model = Some(eval_mode(Get(e.model)))]]

\* load_model as one call: the statements in order, stopping at the first
\* exception with the fields as they are at that point.
load_model(e, cpath, blob) ==
  LET s1 == set_config(e, cpath) IN
  IF s1.err # "" THEN s1 ELSE
  LET s2 == set_model(s1.e) IN
  IF s2.err # "" THEN s2 ELSE
  LET s3 == bind_weights(s2.e, blob) IN
  IF s3.err # "" THEN s3 ELSE
  set_eval(place_model(s3.e).e)


(***************************************************************************)
(* Shape validation and the forward pass.                                  *)
(***************************************************************************)
ErrNotLoaded == "ValueError: Model not loaded"

ErrInvalidShape == "ValueError: Invalid input shape"

ErrNoClasses == "ValueError: No class names defined in model config"

ErrNoModelToSave == "ValueError: No model to save"

\* The loop of _validate_input_shape; Python index i is position i + 1 here.
RECURSIVE validate_loop(_, _, _)
validate_loop(shape, expected, pos) ==
  IF pos > Len(shape) THEN TRUE
  ELSE IF shape[pos] # expected[pos] THEN FALSE
  ELSE validate_loop(shape, expected, pos + 1)

validate_input_shape_batch_checked(cfg, shape) ==
  LET expected_shape == cfg["input_shape"]
  IN IF Len(shape) # Len(expected_shape) THEN FALSE
     ELSE validate_loop(shape, expected_shape, 1)

\* _validate_input_shape, for a config that has 'input_shape'.
validate_input_shape(cfg, shape) ==
  LET expected_shape == cfg["input_shape"]
  IN IF Len(shape) # Len(expected_shape) THEN FALSE
     ELSE validate_loop(shape, expected_shape, 2)

RECURSIVE numel(_)
numel(shape) == IF shape = <<>> THEN 1 ELSE shape[1] * numel(Tail(shape))

\* One stage applied to a tensor of the given shape: the shape of the result
\* or the error torch raises.  Conv2d and MaxPool2d are not covered: no
\* config file of the engine scenarios below declares them.
apply_stage(st, shape, training) ==
  CASE st.kind \in {"Linear", "Composite"} ->
         IF Len(shape) = 0 \/ shape[Len(shape)] # st.a
         THEN [err |-> "RuntimeError", shape |-> shape]
         ELSE [err |-> "", shape |-> [shape EXCEPT ![Len(shape)] = st.b]]
    [] st.kind = "Dropout" -> [err |-> "", shape |-> shape]
    [] st.kind = "Flatten" ->
         IF Len(shape) < 2 THEN [err |-> "IndexError", shape |-> shape]
         ELSE [err |-> "", shape |-> <<shape[1], numel(Tail(shape))>>]
    [] st.kind = "BatchNorm1d" ->
         IF Len(shape) \notin {2, 3} THEN [err |-> "ValueError", shape |-> shape]
         ELSE IF shape[2] # st.a THEN [err |-> "RuntimeError", shape |-> shape]
         ELSE IF training /\ numel(shape) = st.a
              THEN [err |-> "ValueError", shape |-> shape]
         ELSE [err |-> "", shape |-> shape]

\* The module with the named buffers of stage i overwritten by a forward pass.
\* "upd" stands for any value a pass computes from the batch; a second pass
\* writes "upd" again.
touch(m, i, names) ==
  [m EXCEPT !.params = [e \in DOMAIN m.params |->
                          IF e.idx = i - 1 /\ e.name \in names THEN "upd" ELSE m.params[e]]]

\* What applying stage i to a tensor of that shape does to the module itself.
\* Only _BatchNorm.forward in training mode writes: after the rank check it
\* increments num_batches_tracked, and F.batch_norm, when it does not raise,
\* updates running_mean and running_var.  torch.no_grad() does not stop
\* either write.
stage_effect(m, i, shape) ==
  IF m.stages[i].kind = "BatchNorm1d" /\ m.training /\ Len(shape) \in {2, 3}
  THEN IF apply_stage(m.stages[i], shape, m.training).err # ""
       THEN touch(m, i, {"num_batches_tracked"})
       ELSE touch(m, i, {"num_batches_tracked", "running_mean", "running_var"})
  ELSE m

\* nn.Sequential.forward: the stages left to right.  Returns the exception
\* raised (or ""), the shape of the output and the module after the pass.
RECURSIVE forward(_, _, _)
forward(m, i, shape) ==
  IF i > Len(m.stages) THEN [err |-> "", shape |-> shape, module |-> m]
  ELSE LET r == apply_stage(m.stages[i], shape, m.training)
           m2 == stage_effect(m, i, shape)
       IN IF r.err # "" THEN [err |-> r.err, shape |-> r.shape, module |-> m2]
          ELSE forward(m2, i + 1, r.shape)

(***************************************************************************)
(* Tensor values.  Shapes are followed for every tensor; element values    *)
(* only for the class scores of a single sample, a sequence `row` of small *)
(* integers that stands for whatever the pipeline computes from the input  *)
(* data and its parameters.  Probabilities are integers in units of 1/100. *)
(***************************************************************************)
LogitValues == 0..MaxLogit

Latencies == 0..MaxLatency

RECURSIVE sum_seq(_)
sum_seq(s) == IF s = <<>> THEN 0 ELSE s[1] + sum_seq(Tail(s))

min_seq(s) == CHOOSE x \in {s[i] : i \in 1..Len(s)} : \A i \in 1..Len(s) : x <= s[i]

max_seq(s) == CHOOSE x \in {s[i] : i \in 1..Len(s)} : \A i \in 1..Len(s) : x >= s[i]

\* torch.softmax(output, dim=-1) on one row: each score's weight over the sum
\* of the weights.  2^x stands for exp(x): positive and strictly increasing.
softmax(row) ==
  LET w == [i \in 1..Len(row) |-> 2^(row[i])]
  IN [i \in 1..Len(row) |-> (w[i] * 100) \div sum_seq(w)]

argmin(probs) ==
  CHOOSE i \in 1..Len(probs) :
    /\ \A j \in 1..Len(probs) : probs[j] >= probs[i]
    /\ \A j \in 1..(i - 1) : probs[j] > probs[i]

\* torch.max(probabilities, dim=-1): the position of the first maximal value.
argmax(probs) ==
  CHOOSE i \in 1..Len(probs) :
    /\ \A j \in 1..Len(probs) : probs[j] <= probs[i]
    /\ \A j \in 1..(i - 1) : probs[j] < probs[i]

\* torch.topk(probabilities, k) on one row: k positions, largest value first.
\* Which of several equal values comes first is not specified by torch; tie
\* ranks the positions and the lowest rank among the equal ones is taken.
RECURSIVE topk_loop(_, _, _, _)
topk_loop(probs, left, k, tie) ==
  IF k = 0 THEN <<>>
  ELSE LET best == {i \in left : \A j \in left : probs[j] <= probs[i]}
           pick == CHOOSE i \in best : \A j \in best : tie[i] <= tie[j]
       IN <<pick>> \o topk_loop(probs, left \ {pick}, k - 1, tie)

topk(probs, k, tie) == topk_loop(probs, 1..Len(probs), k, tie)

TieOrders(n) == {f \in [1..n -> 1..n] : \A i, j \in 1..n : f[i] = f[j] => i = j}

not_one(d) == d # 1

\* Tensor.squeeze(): every dimension of size 1 is dropped.
squeeze(shape) == SelectSeq(shape, not_one)

\* Tensor.tolist(): a Python number for a 0-dimensional tensor, a list for a
\* 1-dimensional one, nested lists otherwise.
tolist_form(shape) ==
  CASE Len(shape) = 0 -> "scalar"
    [] Len(shape) = 1 -> "list"
    [] OTHER -> "nested"

\* Size of the last dimension and number of rows of a tensor of that shape.
classes_of(out) == IF Len(out) = 0 THEN 1 ELSE out[Len(out)]

samples_of(out) == IF Len(out) = 0 THEN 1 ELSE numel(SubSeq(out, 1, Len(out) - 1))

(***************************************************************************)
(* The operations other than load_model, as functions of the engine fields *)
(* e = [config, model].  Each returns the exception raised (or ""), the    *)
(* number of forward passes started, the shapes of the tensors returned,   *)
(* the Python value returned when it is not a tensor, and the engine       *)
(* fields as the call leaves them.                                         *)
(***************************************************************************)
NoStats == [n |-> 0, total |-> 0, min |-> 0, max |-> 0, nan |-> FALSE, ssd |-> 0]

\* form: "none", "scalar" (one number per component), "list", "nested",
\* "str", "dict".  idx and probs hold the class indices and probabilities
\* returned, name the class name, stats the benchmark figures; row keeps the
\* scores they were computed from.
NoRet ==
  [form |-> "none", row |-> <<>>, idx |-> <<>>, probs |-> <<>>, name |-> "",
   stats |-> NoStats]

Result(err, passes, outs, ret, e) ==
  [err |-> err, passes |-> passes, outs |-> outs, ret |-> ret, e |-> e]

Raised(err, passes, e) == Result(err, passes, <<>>, NoRet, e)

\* The outcome recorded for a step that is none of these operations.
Outcome(err, passes, outs) == Result(err, passes, outs, NoRet, Engine(None, None))

predict(e, shape) ==
  IF IsNone(e.model) THEN Raised(ErrNotLoaded, 0, e)
  ELSE IF "input_shape" \notin DOMAIN Get(e.config) THEN Raised("KeyError", 0, e)
  ELSE IF ~validate_input_shape(Get(e.config), shape) THEN Raised(ErrInvalidShape, 0, e)
  ELSE LET r == forward(Get(e.model), 1, shape)
           e2 == [e EXCEPT !.model = Some(r.module)]
       IN IF r.err # "" THEN Raised(r.err, 1, e2)
          ELSE Result("", 1, <<r.shape>>, NoRet, e2)

\* A variant of the loop of predict_batch that drops a failing element and
\* goes on with the next one.
RECURSIVE predict_batch_loop_skipping(_, _, _)
predict_batch_loop_skipping(inputs, i, acc) ==
  IF i > Len(inputs) THEN acc
  ELSE LET r == predict(acc.e, inputs[i])
       IN predict_batch_loop_skipping(
            inputs, i + 1,
            Result("", acc.passes + r.passes, acc.outs \o r.outs, NoRet, r.e))

\* The loop of predict_batch from element i on; acc holds the results so far.
RECURSIVE predict_batch_loop(_, _, _)
predict_batch_loop(inputs, i, acc) ==
  IF i > Len(inputs) THEN acc
  ELSE LET r == predict(acc.e, inputs[i])
       IN IF r.err # "" THEN Raised(r.err, acc.passes + r.passes, r.e)
          ELSE predict_batch_loop(
                 inputs, i + 1,
                 Result("", acc.passes + r.passes, acc.outs \o r.outs, NoRet, r.e))

predict_batch(e, inputs) == predict_batch_loop(inputs, 1, Result("", 0, <<>>, NoRet, e))

\* The rows of class scores a forward pass on that input can produce, when
\* predict returns the scores of exactly one sample.
score_rows(e, shape) ==
  LET r == predict(e, shape)
  IN IF r.err = "" /\ samples_of(r.outs[1]) = 1 /\ classes_of(r.outs[1]) > 0
     THEN [1..classes_of(r.outs[1]) -> LogitValues]
     ELSE {<<>>}

\* predict_class: softmax and max over the last dimension, then
\* .squeeze().item() on both results, which needs exactly one element.  row
\* is the row of scores predict returned.
predict_class(e, shape, row) ==
  LET r == predict(e, shape)
  IN IF r.err # "" THEN r
     ELSE LET out == r.outs[1]
          IN IF classes_of(out) = 0 THEN Raised("RuntimeError", 1, r.e)
             ELSE IF samples_of(out) # 1 THEN Raised("RuntimeError", 1, r.e)
             ELSE LET probs == softmax(row)
                      i == argmax(probs)
                  IN Result("", 1, <<>>,
                            [NoRet EXCEPT !.form = "scalar", !.row = row,
                                          !.idx = <<i - 1>>, !.probs = <<probs[i]>>],
                            r.e)

\* A variant of predict_class_name that classifies first and looks for the
\* class names afterwards.
predict_class_name_classifying_first(e, shape, row) ==
  LET r == predict_class(e, shape, row)
  IN IF r.err # "" THEN r
     ELSE IF "classes" \notin DOMAIN Get(e.config) THEN Raised(ErrNoClasses, 1, r.e)
     ELSE IF r.ret.idx[1] >= Len(Get(e.config)["classes"]) THEN Raised("IndexError", 1, r.e)
     ELSE [r EXCEPT !.ret.form = "str",
                    !.ret.name = Get(e.config)["classes"][r.ret.idx[1] + 1]]

\* predict_class_name: `'classes' not in self.config` comes first and raises
\* TypeError on None.
predict_class_name(e, shape, row) ==
  IF IsNone(e.config) THEN Raised("TypeError", 0, e)
  ELSE IF "classes" \notin DOMAIN Get(e.config) THEN Raised(ErrNoClasses, 0, e)
  ELSE LET r == predict_class(e, shape, row)
       IN IF r.err # "" THEN r
          ELSE IF r.ret.idx[1] >= Len(Get(e.config)["classes"])
               THEN Raised("IndexError", 1, r.e)
          ELSE [r EXCEPT !.ret.form = "str",
                         !.ret.name = Get(e.config)["classes"][r.ret.idx[1] + 1]]

\* predict_top_k: softmax, torch.topk along the last dimension, then
\* .squeeze().tolist() on both results.  The values are followed for a
\* single sample only; for several samples only the form of the result is.
predict_top_k(e, shape, k, row, tie) ==
  LET r == predict(e, shape)
  IN IF r.err # "" THEN r
     ELSE LET out == r.outs[1]
              picked == IF Len(out) = 0 THEN out ELSE [out EXCEPT ![Len(out)] = k]
          IN IF k > classes_of(out) THEN Raised("RuntimeError", 1, r.e)
             ELSE IF samples_of(out) # 1
                  THEN Result("", 1, <<>>,
                              [NoRet EXCEPT !.form = tolist_form(squeeze(picked))], r.e)
             ELSE LET probs == softmax(row)
                      sel == topk(probs, k, tie)
                  IN Result("", 1, <<>>,
                            [NoRet EXCEPT !.form = tolist_form(squeeze(picked)),
                                          !.row = row,
                                          !.idx = [j \in 1..k |-> sel[j] - 1],
                                          !.probs = [j \in 1..k |-> probs[sel[j]]]],
                            r.e)

\* [1] + self.config['input_shape'][1:]
dummy_shape(cfg) ==
  IF cfg["input_shape"] = <<>> THEN <<1>> ELSE <<1>> \o Tail(cfg["input_shape"])

warmup(e, num_iterations) ==
  IF IsNone(e.model) THEN Raised(ErrNotLoaded, 0, e)
  ELSE IF "input_shape" \notin DOMAIN Get(e.config) THEN Raised("KeyError", 0, e)
  ELSE LET r == forward(Get(e.model), 1, dummy_shape(Get(e.config)))
           e2 == [e EXCEPT !.model = Some(r.module)]
       IN IF num_iterations > 0 /\ r.err # "" THEN Raised(r.err, 1, e2)
          ELSE IF num_iterations = 0 THEN Raised("ZeroDivisionError", 0, e)
          ELSE Result("", num_iterations, <<>>, NoRet, e2)

WarmupPasses == 10

\* The figures benchmark derives from the list `times`: sum(times) and
\* len(times) for the average, min, max, and torch.tensor(times).std(), the
\* sample standard deviation sqrt(ssd / (n * (n - 1))) with
\* ssd = n * sum(t^2) - sum(t)^2, which is NaN for a single element.
statistics(times) ==
  [n |-> Len(times),
   total |-> sum_seq(times),
   min |-> min_seq(times),
   max |-> max_seq(times),
   nan |-> Len(times) = 1,
   ssd |-> Len(times) * sum_seq([i \in 1..Len(times) |-> times[i] * times[i]])
           - sum_seq(times) * sum_seq(times)]

\* The latencies the timed loop can measure.
timings(e, shape, num_runs) ==
  IF ~IsNone(e.model) /\ forward(Get(e.model), 1, shape).err = "" /\ num_runs > 0
  THEN [1..num_runs -> Latencies]
  ELSE {<<>>}

\* benchmark: no shape validation; range(10) untimed passes, then num_runs
\* timed ones whose latencies are `times`.
benchmark(e, shape, num_runs, times) ==
  IF IsNone(e.model) THEN Raised(ErrNotLoaded, 0, e)
  ELSE LET r == forward(Get(e.model), 1, shape)
           e2 == [e EXCEPT !.model = Some(r.module)]
       IN IF r.err # "" THEN Raised(r.err, 1, e2)
          ELSE IF num_runs = 0 THEN Raised("ZeroDivisionError", WarmupPasses, e2)
          ELSE Result("", WarmupPasses + num_runs, <<>>,
                      [NoRet EXCEPT !.form = "dict", !.stats = statistics(times)], e2)

\* get_model_info: dict.copy() is a new top-level dict whose values are the
\* same objects as the engine's; `shared` names the keys whose value is a
\* list object the returned dict and self.config both refer to.
ListKeys == {"input_shape", "classes", "layers"}

get_model_info(cfgOpt) ==
  IF IsNone(cfgOpt) \/ DOMAIN Get(cfgOpt) = {}
  THEN [top |-> EmptyDict, shared |-> {}]
  ELSE [top |-> Get(cfgOpt), shared |-> DOMAIN Get(cfgOpt) \cap ListKeys]

\* A save_model that writes the parameters as JSON text.
save_model_as_json(e) ==
  IF IsNone(e.model) THEN [err |-> ErrNoModelToSave, file |-> None]
  ELSE [err |-> "", file |-> Some(Blob("json", Get(e.model).params))]

\* save_model: the file torch.save writes, if any.
save_model(e) ==
  IF IsNone(e.model) THEN [err |-> ErrNoModelToSave, file |-> None]
  ELSE [err |-> "", file |-> Some(Blob("native", Get(e.model).params))]


(***************************************************************************)
(* State.                                                                  *)
(*   config, model   self.config and self.model                            *)
(*   info            the dict last returned by get_model_info, still held  *)
(*                   by the caller                                         *)
(*   saved           the file written by save_model, with the engine       *)
(*                   fields it was written from                            *)
(*   last            the last call: operation, arguments, exception raised,*)
(*                   forward passes started, shapes and value returned     *)
(*   pre             self.config and self.model when that call began       *)
(*   loadedOnce      some load_model call has returned without raising     *)
(*   loadThread, predictThread   positions of a load_model call and of a   *)
(*                   predict call running in two threads                   *)
(***************************************************************************)
InputShapes == {<<2>>, <<1, 2>>, <<3, 2>>, <<1, 3>>, <<1, 2, 1>>}

BatchShapes == {<<1, 2>>, <<1, 3>>}

Batches == UNION {[1..n -> BatchShapes] : n \in 0..MaxBatch}

Call(op, cpath, wpath, shapes, n, o) ==
  [op |-> op, cpath |-> cpath, wpath |-> wpath, shapes |-> shapes, n |-> n,
   err |-> o.err, passes |-> o.passes, outs |-> o.outs, ret |-> o.ret]

IdleLoad == [pc |-> "idle", cpath |-> "", wpath |-> ""]

IdlePredict ==
  [pc |-> "idle", shape |-> <<>>, cfgSeen |-> None, modelRun |-> None, err |-> ""]

Init ==
  /\ config = None
  /\ model = None
  /\ info = None
  /\ saved = None
  /\ last = Call("__init__", "", "", <<>>, 0, Outcome("", 0, <<>>))
  /\ pre = Engine(None, None)
  /\ loadedOnce = FALSE
  /\ loadThread = IdleLoad
  /\ predictThread = IdlePredict

Idle == loadThread = IdleLoad /\ predictThread = IdlePredict

\* The caller's dict after self.config has been rebound to a fresh dict: it
\* shares no object with the engine any more.
unshare(infoOpt) ==
  IF IsNone(infoOpt) THEN infoOpt ELSE Some([Get(infoOpt) EXCEPT !.shared = {}])

\* The bookkeeping of a call of one of the operations above: the engine
\* fields become what the operation leaves.
Returns(op, shapes, n, o) ==
  /\ config' = o.e.config
  /\ model' = o.e.model
  /\ last' = Call(op, "", "", shapes, n, o)
  /\ pre' = Engine(config, model)
  /\ UNCHANGED <<info, saved, loadedOnce, loadThread, predictThread>>

LoadModel(cpath, wpath) ==
  LET r == load_model(Engine(config, model), cpath, weights_file(wpath, saved))
  IN /\ Idle
     /\ config' = r.e.config
     /\ model' = r.e.model
     /\ info' = IF set_config(Engine(config, model), cpath).err = "" THEN unshare(info) ELSE info
     /\ loadedOnce' = (loadedOnce \/ r.err = "")
     /\ last' = Call("load_model", cpath, wpath, <<>>, 0, Outcome(r.err, 0, <<>>))
     /\ pre' = Engine(config, model)
     /\ UNCHANGED <<saved, loadThread, predictThread>>

Predict(shape) ==
  /\ Idle
  /\ Returns("predict", <<shape>>, 0, predict(Engine(config, model), shape))

PredictBatch(inputs) ==
  /\ Idle
  /\ Returns("predict_batch", inputs, 0, predict_batch(Engine(config, model), inputs))

PredictClass(shape) ==
  /\ Idle
  /\ \E row \in score_rows(Engine(config, model), shape) :
       Returns("predict_class", <<shape>>, 0,
               predict_class(Engine(config, model), shape, row))

PredictClassName(shape) ==
  /\ Idle
  /\ \E row \in score_rows(Engine(config, model), shape) :
       Returns("predict_class_name", <<shape>>, 0,
               predict_class_name(Engine(config, model), shape, row))

PredictTopK(shape, k) ==
  /\ Idle
  /\ \E row \in score_rows(Engine(config, model), shape) :
       \E tie \in TieOrders(Len(row)) :
         Returns("predict_top_k", <<shape>>, k,
                 predict_top_k(Engine(config, model), shape, k, row, tie))

Warmup(n) ==
  /\ Idle
  /\ Returns("warmup", <<>>, n, warmup(Engine(config, model), n))

Benchmark(shape, n) ==
  /\ Idle
  /\ \E times \in timings(Engine(config, model), shape, n) :
       Returns("benchmark", <<shape>>, n,
               benchmark(Engine(config, model), shape, n, times))

GetModelInfo ==
  /\ Idle
  /\ info' = Some(get_model_info(config))
  /\ last' = Call("get_model_info", "", "", <<>>, 0, Outcome("", 0, <<>>))
  /\ pre' = Engine(config, model)
  /\ UNCHANGED <<config, model, saved, loadedOnce, loadThread, predictThread>>

\* `by` keeps the engine fields the file was written from.
SaveModel ==
  LET r == save_model(Engine(config, model))
  IN /\ Idle
     /\ saved' = IF r.err = ""
                 THEN Some([file |-> Get(r.file), by |-> Engine(config, model)])
                 ELSE saved
     /\ last' = Call("save_model", "", "saved.pth", <<>>, 0, Outcome(r.err, 0, <<>>))
     /\ pre' = Engine(config, model)
     /\ UNCHANGED <<config, model, info, loadedOnce, loadThread, predictThread>>

\* InferenceEngine(): another engine object takes the place of the one
\* followed so far; the files on disk stay.
NewEngine ==
  /\ Idle
  /\ config' = None
  /\ model' = None
  /\ info' = None
  /\ loadedOnce' = FALSE
  /\ last' = Call("__init__", "", "", <<>>, 0, Outcome("", 0, <<>>))
  /\ pre' = Engine(None, None)
  /\ UNCHANGED <<saved, loadThread, predictThread>>

(***************************************************************************)
(* What the caller does with the dict get_model_info returned.             *)
(***************************************************************************)
\* info['input_shape'] = [1, 9]: rebinds a key of the caller's own dict.
CallerAssignsKey ==
  /\ Idle
  /\ ~IsNone(info)
  /\ LET d == Get(info).top
         d2 == [k \in DOMAIN d \cup {"input_shape"} |->
                  IF k = "input_shape" THEN <<1, 9>> ELSE d[k]]
     IN /\ d2 # d
        /\ info' = Some([top |-> d2, shared |-> Get(info).shared \ {"input_shape"}])
  /\ last' = Call("caller: info[key] = value", "", "", <<>>, 0, Outcome("", 0, <<>>))
  /\ pre' = Engine(config, model)
  /\ UNCHANGED <<config, model, saved, loadedOnce, loadThread, predictThread>>

\* In-place change of a list reached through the caller's dict:
\* info['input_shape'][-1] = 9, info['classes'].pop(), info['layers'].clear().
mutated(key, v) ==
  CASE key = "input_shape" -> IF v = <<>> THEN v ELSE [v EXCEPT ![Len(v)] = 9]
    [] key = "classes" -> IF v = <<>> THEN v ELSE SubSeq(v, 1, Len(v) - 1)
    [] key = "layers" -> <<>>

CallerMutatesList(key) ==
  /\ Idle
  /\ ~IsNone(info)
  /\ key \in DOMAIN Get(info).top
  /\ LET v == Get(info).top[key]
     IN /\ mutated(key, v) # v
        /\ info' = Some([Get(info) EXCEPT !.top[key] = mutated(key, v)])
        /\ config' = IF key \in Get(info).shared
                     THEN Some([Get(config) EXCEPT ![key] = mutated(key, v)])
                     ELSE config
  /\ last' = Call("caller: info[key] mutated in place", "", "", <<>>, 0, Outcome("", 0, <<>>))
  /\ pre' = Engine(config, model)
  /\ UNCHANGED <<model, saved, loadedOnce, loadThread, predictThread>>

(***************************************************************************)
(* Specifications.  Spec is the engine driven by one caller through        *)
(* load_model and the prediction family; SpecInfo follows a dict returned  *)
(* by get_model_info in the caller's hands; SpecSave adds save_model and   *)
(* the file it writes.                                                     *)
(***************************************************************************)
Next ==
  \/ \E cpath \in ConfigPaths, wpath \in WeightPaths \ {"saved.pth"} : LoadModel(cpath, wpath)
  \/ \E shape \in InputShapes : Predict(shape)
  \/ \E inputs \in Batches : PredictBatch(inputs)
  \/ \E shape \in InputShapes : PredictClass(shape)
  \/ \E shape \in InputShapes : PredictClassName(shape)
  \/ \E shape \in InputShapes, k \in 1..MaxK : PredictTopK(shape, k)
  \/ \E n \in 0..MaxRuns : Warmup(n)
  \/ \E shape \in InputShapes, n \in 0..MaxRuns : Benchmark(shape, n)

Spec == Init /\ [][Next]_vars

NextInfo ==
  \/ \E cpath \in {"a.json", "b.json"}, wpath \in {"a.pth", "b.pth"} : LoadModel(cpath, wpath)
  \/ GetModelInfo
  \/ CallerAssignsKey
  \/ \E key \in ListKeys : CallerMutatesList(key)
  \/ \E shape \in {<<1, 2>>, <<1, 3>>} : Predict(shape)
  \/ \E shape \in {<<1, 2>>, <<1, 3>>} : PredictClassName(shape)

SpecInfo == Init /\ [][NextInfo]_vars

NextSave ==
  \/ \E cpath \in {"a.json", "b.json"}, wpath \in WeightPaths : LoadModel(cpath, wpath)
  \/ SaveModel
  \/ NewEngine
  \/ \E shape \in {<<1, 2>>, <<1, 3>>} : Predict(shape)

SpecSave == Init /\ [][NextSave]_vars

\* SpecFrame: every operation other than load_model, on an engine loaded, or
\* left half loaded, from a config with a BatchNorm stage.
FrameShapes == {<<1, 2>>, <<3, 2>>}

NextFrame ==
  \/ \E cpath \in {"bn.json", "absent.json"}, wpath \in {"go.json", "absent.pth"} :
       LoadModel(cpath, wpath)
  \/ \E shape \in FrameShapes : Predict(shape)
  \/ \E inputs \in [1..MaxBatch -> FrameShapes] : PredictBatch(inputs)
  \/ \E shape \in FrameShapes : PredictClass(shape)
  \/ \E shape \in FrameShapes : PredictClassName(shape)
  \/ \E shape \in FrameShapes, k \in 1..MaxK : PredictTopK(shape, k)
  \/ \E n \in 0..MaxRuns : Warmup(n)
  \/ \E shape \in FrameShapes, n \in 0..MaxRuns : Benchmark(shape, n)
  \/ GetModelInfo
  \/ SaveModel

SpecFrame == Init /\ [][NextFrame]_vars

(***************************************************************************)
(* SpecBuild: _build_model_from_config called on an engine whose config    *)
(* holds an arbitrary short list of layer entries.                         *)
(***************************************************************************)
LayerEntries ==
  {Dense(2, 2),
   DenseAct(2, 2, "ReLU"),
   DenseAct(2, 2, "Swish"),
   [type |-> "Dense", params |-> [input_size |-> IntV(2)]],
   [type |-> "Dense", params |-> [input_size |-> StrV("wide"), output_size |-> IntV(2)]],
   [type |-> "Conv2D",
    params |-> [in_channels |-> IntV(1), out_channels |-> IntV(2), kernel_size |-> ListV(3),
                stride |-> IntV(1), padding |-> IntV(0)]],
   [type |-> "MaxPool2D",
    params |-> [pool_size |-> IntV(2), stride |-> IntV(2), padding |-> StrV("valid")]],
   [type |-> "Flatten", params |-> EmptyDict],
   [type |-> "Dropout", params |-> [rate |-> IntV(20)]],
   [type |-> "BatchNorm", params |-> [size |-> IntV(2)]],
   [type |-> "Attention", params |-> [heads |-> IntV(2)]],
   [type |-> "Attention"]}

LayerLists == UNION {[1..n -> LayerEntries] : n \in 0..MaxLayers}

InitBuild ==
  /\ config \in {Some([version |-> "1.0", input_shape |-> <<1, 2>>, layers |-> ls]) :
                   ls \in LayerLists}
  /\ model = None
  /\ info = None
  /\ saved = None
  /\ last = Call("__init__", "", "", <<>>, 0, Outcome("", 0, <<>>))
  /\ pre = Engine(None, None)
  /\ loadedOnce = FALSE
  /\ loadThread = IdleLoad
  /\ predictThread = IdlePredict

BuildModelFromConfig ==
  LET r == set_model(Engine(config, model))
  IN /\ last.op = "__init__"
     /\ model' = r.e.model
     /\ last' = Call("_build_model_from_config", "", "", <<>>, 0, Outcome(r.err, 0, <<>>))
     /\ pre' = Engine(config, model)
     /\ UNCHANGED <<config, info, saved, loadedOnce, loadThread, predictThread>>

NextBuild == BuildModelFromConfig

SpecBuild == InitBuild /\ [][NextBuild]_vars

(***************************************************************************)
(* SpecConc: one thread inside load_model and one inside predict on the    *)
(* same engine, interleaved statement by statement.  No lock is taken by   *)
(* either method.                                                          *)
(***************************************************************************)
LoadRaises == loadThread' = IdleLoad

LoadBegin(cpath, wpath) ==
  LET r == set_config(Engine(config, model), cpath)
  IN /\ loadThread.pc = "idle"
     /\ config' = r.e.config
     /\ info' = IF r.err = "" THEN unshare(info) ELSE info
     /\ IF r.err # "" THEN LoadRaises
        ELSE loadThread' = [pc |-> "line20", cpath |-> cpath, wpath |-> wpath]
     /\ UNCHANGED <<model, saved, last, pre, loadedOnce, predictThread>>

LoadBuild ==
  LET r == set_model(Engine(config, model))
  IN /\ loadThread.pc = "line20"
     /\ model' = r.e.model
     /\ IF r.err # "" THEN LoadRaises ELSE loadThread' = [loadThread EXCEPT !.pc = "line21"]
     /\ UNCHANGED <<config, info, saved, last, pre, loadedOnce, predictThread>>

LoadWeights ==
  LET r == bind_weights(Engine(config, model), weights_file(loadThread.wpath, saved))
  IN /\ loadThread.pc = "line21"
     /\ model' = r.e.model
     /\ IF r.err # "" THEN LoadRaises ELSE loadThread' = [loadThread EXCEPT !.pc = "line22"]
     /\ UNCHANGED <<config, info, saved, last, pre, loadedOnce, predictThread>>

LoadToDevice ==
  /\ loadThread.pc = "line22"
  /\ model' = place_model(Engine(config, model)).e.model
  /\ loadThread' = [loadThread EXCEPT !.pc = "line23"]
  /\ UNCHANGED <<config, info, saved, last, pre, loadedOnce, predictThread>>

LoadEval ==
  /\ loadThread.pc = "line23"
  /\ model' = set_eval(Engine(config, model)).e.model
  /\ loadThread' = IdleLoad
  /\ loadedOnce' = TRUE
  /\ UNCHANGED <<config, info, saved, last, pre, predictThread>>

\* line 125: if self.model is None
PredictBegin(shape) ==
  /\ predictThread.pc = "idle"
  /\ predictThread' =
       IF IsNone(model)
       THEN [IdlePredict EXCEPT !.pc = "done", !.shape = shape, !.err = ErrNotLoaded]
       ELSE [IdlePredict EXCEPT !.pc = "line128", !.shape = shape]
  /\ UNCHANGED <<config, model, info, saved, last, pre, loadedOnce, loadThread>>

\* line 128: self._validate_input_shape reads self.config
PredictValidate ==
  /\ predictThread.pc = "line128"
  /\ predictThread' =
       IF "input_shape" \notin DOMAIN Get(config)
       THEN [predictThread EXCEPT !.pc = "done", !.err = "KeyError"]
       ELSE IF ~validate_input_shape(Get(config), predictThread.shape)
       THEN [predictThread EXCEPT !.pc = "done", !.err = ErrInvalidShape, !.cfgSeen = config]
       ELSE [predictThread EXCEPT !.pc = "line134", !.cfgSeen = config]
  /\ UNCHANGED <<config, model, info, saved, last, pre, loadedOnce, loadThread>>

\* line 134: self.model(input_tensor) reads self.model again
PredictForward ==
  /\ predictThread.pc = "line134"
  /\ predictThread' = [predictThread EXCEPT
                         !.pc = "done",
                         !.modelRun = model,
                         !.err = forward(Get(model), 1, predictThread.shape).err]
  /\ model' = Some(forward(Get(model), 1, predictThread.shape).module)
  /\ UNCHANGED <<config, info, saved, last, pre, loadedOnce, loadThread>>

PredictReturn ==
  /\ predictThread.pc = "done"
  /\ predictThread' = IdlePredict
  /\ UNCHANGED <<config, model, info, saved, last, pre, loadedOnce, loadThread>>

NextConc ==
  \/ \E cpath \in {"a.json", "b.json", "nolayers.json"}, wpath \in {"a.pth", "b.pth"} :
       LoadBegin(cpath, wpath)
  \/ LoadBuild
  \/ LoadWeights
  \/ LoadToDevice
  \/ LoadEval
  \/ \E shape \in {<<1, 2>>, <<1, 3>>} : PredictBegin(shape)
  \/ PredictValidate
  \/ PredictForward
  \/ PredictReturn

SpecConc == Init /\ [][NextConc]_vars

(***************************************************************************)
(* Properties.                                                             *)
(***************************************************************************)
LoadFailed == last.op = "load_model" /\ last.err # ""

LoadSucceeded == last.op = "load_model" /\ last.err = ""

\* C1: a load_model call that raises leaves self.config and self.model exactly
\* as they were when the call began, whatever step of the chain failed.
FailedLoadLeavesEngineUnchanged ==
  LoadFailed => (config = pre.config /\ model = pre.model)

\* C2: in every reachable state the engine is either Unloaded (no config and
\* no pipeline) or Loaded (both present, the pipeline built from that very
\* config and passed through the weight loader); never one without the other.
EngineUnloadedOrLoaded ==
  \/ IsNone(config) /\ IsNone(model)
  \/ /\ ~IsNone(config)
     /\ ~IsNone(model)
     /\ Get(model).builtFrom = Get(config)
     /\ Get(model).loader # "none"

\* C3: a predict call interleaved with a load_model call that has evaluated a
\* pipeline evaluated one whose load was complete (weights through the
\* loader, on the device, inference mode) and validated the input against
\* the config that very pipeline was built from.
PredictObservesAtomicLoad ==
  (predictThread.pc = "done" /\ ~IsNone(predictThread.modelRun)) =>
    LET m == Get(predictThread.modelRun)
    IN /\ m.builtFrom = Get(predictThread.cfgSeen)
       /\ m.loader # "none"
       /\ m.placed
       /\ ~m.training

RECURSIVE range(_)
range(f) ==
  IF DOMAIN f = {} THEN {}
  ELSE LET x == CHOOSE x \in DOMAIN f : TRUE
       IN {f[x]} \cup range([y \in DOMAIN f \ {x} |-> f[y]])

\* C4: after a load_model call that returned normally the engine holds the
\* config read from that call's config file and a pipeline built from it
\* alone (stages, parameter entries and parameter values all come from this
\* call's config and weights file), and the pipeline is in inference mode.
SuccessfulLoadReplacesEverything ==
  LoadSucceeded =>
    LET doc == config_doc(last.cpath)
        blob == weights_file(last.wpath, saved)
    IN /\ config = Some(doc)
       /\ ~IsNone(model)
       /\ Get(model).builtFrom = doc
       /\ Get(model).stages = build_model_from_config(doc).stages
       /\ DOMAIN Get(model).params = state_entries(build_model_from_config(doc).stages)
       /\ range(Get(model).params) \subseteq {"init"} \cup range(blob.vals)
       /\ Get(model).training = FALSE

\* C4 witness: a load that succeeded on an engine already loaded from a
\* different config.
ReloadedWithOtherConfig ==
  /\ LoadSucceeded
  /\ ~IsNone(pre.model)
  /\ ~IsNone(pre.config)
  /\ pre.config # config
  /\ Get(pre.model).stages # Get(model).stages

\* C5: on an engine on which no load_model call has ever returned normally,
\* predict, warmup and benchmark raise 'Model not loaded' and start no
\* forward pass.
NeverLoadedEngineRejectsCalls ==
  (~loadedOnce /\ last.op \in {"predict", "warmup", "benchmark"}) =>
    (last.err = ErrNotLoaded /\ last.passes = 0)

\* C6: on an Unloaded engine predict_batch, predict_class, predict_class_name
\* and predict_top_k raise 'Model not loaded', and nothing else, for every
\* argument.
UnloadedEngineRejectsDerivedCalls ==
  (/\ IsNone(config)
   /\ IsNone(model)
   /\ last.op \in {"predict_batch", "predict_class", "predict_class_name", "predict_top_k"})
  => last.err = ErrNotLoaded

\* The acceptance rule as the specification words it.
shape_accepted(shape, expected) ==
  /\ Len(shape) = Len(expected)
  /\ \A i \in 2..Len(shape) : shape[i] = expected[i]

\* C7: on a loaded engine predict passes the input to the pipeline exactly
\* when its rank equals that of input_shape and every dimension but the first
\* agrees with it; every other input raises 'Invalid input shape' with no
\* forward pass started.
PredictAcceptsExactlyMatchingShapes ==
  (/\ last.op = "predict"
   /\ ~IsNone(model)
   /\ "input_shape" \in DOMAIN Get(config))
  => LET shape == last.shapes[1]
         ok == shape_accepted(shape, Get(config)["input_shape"])
     IN /\ ok <=> last.passes = 1
        /\ ~ok <=> (last.err = ErrInvalidShape /\ last.passes = 0)

\* C7 witness: a batch of three rows accepted against input_shape [1, 2].
BatchOfThreeAccepted ==
  /\ last.op = "predict"
  /\ ~IsNone(model)
  /\ Get(config)["input_shape"] = <<1, 2>>
  /\ last.shapes = << <<3, 2>> >>
  /\ last.passes = 1
  /\ last.err = ""

RecognizedTypes == {"Dense", "Conv2D", "MaxPool2D", "Flatten", "Dropout", "BatchNorm"}

IsRecognized(entry) == entry["type"] \in RecognizedTypes

\* The kind of stage the specification assigns to a recognized entry.
expected_kind(entry) ==
  CASE entry["type"] = "Dense" ->
         IF /\ "activation" \in DOMAIN entry["params"]
            /\ entry["params"]["activation"].s \in Activations
         THEN "Composite" ELSE "Linear"
    [] entry["type"] = "Conv2D" -> "Conv2d"
    [] entry["type"] = "MaxPool2D" -> "MaxPool2d"
    [] entry["type"] = "Flatten" -> "Flatten"
    [] entry["type"] = "Dropout" -> "Dropout"
    [] entry["type"] = "BatchNorm" -> "BatchNorm1d"

BuildSucceeded == last.op = "_build_model_from_config" /\ last.err = ""

BuildFailed == last.op = "_build_model_from_config" /\ last.err # ""

\* C8: the pipeline the builder returns is the stages of the recognized-type
\* entries in declared order: as many stages as entries minus the
\* unrecognized ones, the i-th stage being the one stage (a composite for a
\* Dense entry with an activation) of the i-th recognized entry.
BuiltPipelineIsRecognizedEntriesInOrder ==
  BuildSucceeded =>
    LET entries == Get(config)["layers"]
        rec == SelectSeq(entries, IsRecognized)
        unrec == {i \in 1..Len(entries) : ~IsRecognized(entries[i])}
        st == Get(model).stages
    IN /\ Len(st) = Len(entries) - Cardinality(unrec)
       /\ Len(st) = Len(rec)
       /\ \A i \in 1..Len(st) :
            /\ st[i].kind = expected_kind(rec[i])
            /\ st[i] = Get(create_layer(rec[i]).stage)

\* C8 witness: a Dense entry with an activation, an unrecognized entry and a
\* Dropout entry yield two stages, composite first.
UnrecognizedEntryDroppedBetweenTwo ==
  /\ BuildSucceeded
  /\ Len(Get(config)["layers"]) = 3
  /\ Get(config)["layers"][1] = DenseAct(2, 2, "ReLU")
  /\ Get(config)["layers"][2]["type"] = "Attention"
  /\ Get(config)["layers"][3]["type"] = "Dropout"
  /\ Len(Get(model).stages) = 2
  /\ Get(model).stages[1].kind = "Composite"
  /\ Get(model).stages[2].kind = "Dropout"

\* Parameters the specification requires of each recognized type, and those
\* that must be numbers.
required_params(type) ==
  CASE type = "Dense" -> {"input_size", "output_size"}
    [] type = "Conv2D" -> {"in_channels", "out_channels", "kernel_size", "stride", "padding"}
    [] type = "MaxPool2D" -> {"pool_size", "stride", "padding"}
    [] type = "Dropout" -> {"rate"}
    [] type = "BatchNorm" -> {"size"}
    [] OTHER -> {}

numeric_params == {"input_size", "output_size", "in_channels", "out_channels", "stride",
                   "rate", "size"}

bad_recognized(entry) ==
  /\ IsRecognized(entry)
  /\ \E k \in required_params(entry["type"]) :
       \/ "params" \notin DOMAIN entry
       \/ k \notin DOMAIN entry["params"]
       \/ k \in numeric_params /\ entry["params"][k].t # "int"

\* C9: the builder raises only when some recognized-type entry lacks a
\* required parameter or holds one of the wrong type; an unrecognized-type
\* entry, with or without a params field, never makes it raise.
BuilderFailsOnlyOnBadRecognizedEntry ==
  BuildFailed =>
    \E i \in 1..Len(Get(config)["layers"]) : bad_recognized(Get(config)["layers"][i])

CallerActed ==
  last.op \in {"caller: info[key] = value", "caller: info[key] mutated in place"}

\* C10: get_model_info returns an empty mapping when no config is held and a
\* mapping equal to the config otherwise, and nothing the caller then does to
\* the returned value, at the top level or inside its lists, changes
\* self.config.
ReturnedInfoIsDetachedCopy ==
  /\ last.op = "get_model_info" =>
       Get(info).top = (IF IsNone(config) THEN EmptyDict ELSE Get(config))
  /\ CallerActed => config = pre.config

\* C11: on an engine whose config has no 'classes' key, predict_class_name
\* raises 'No class names defined in model config' for every input, also one
\* whose shape validation would reject, and starts no forward pass.
NoClassesRejectedBeforeAnyForwardPass ==
  (/\ last.op = "predict_class_name"
   /\ ~IsNone(pre.config)
   /\ "classes" \notin DOMAIN Get(pre.config))
  => (last.err = ErrNoClasses /\ last.passes = 0)

\* C11 witness: the engine loaded from b.json (no 'classes', input_shape
\* [1, 3]) asked for the class name of an input of shape [1, 2].
NoClassesRejectedOnInvalidShape ==
  /\ last.op = "predict_class_name"
  /\ pre.config = Some(DocB)
  /\ ~IsNone(pre.model)
  /\ Get(pre.model).builtFrom = DocB
  /\ Get(pre.model).loader = "native"
  /\ last.shapes = << <<1, 2>> >>
  /\ ~validate_input_shape(DocB, <<1, 2>>)
  /\ last.err = ErrNoClasses
  /\ last.passes = 0

\* C12: on an engine holding a pipeline, predict_batch applies predict to the
\* elements in list order: when every element succeeds it returns as many
\* outputs as inputs, the i-th being predict's on the i-th input; otherwise
\* it raises the error of the first failing element, has run no element
\* after that one, and returns no partial list.
BatchIsPredictInOrderUntilFirstFailure ==
  (last.op = "predict_batch" /\ ~IsNone(pre.model)) =>
    LET inputs == last.shapes
        failing == {i \in 1..Len(inputs) : predict(pre, inputs[i]).err # ""}
    IN IF failing = {}
       THEN /\ last.err = ""
            /\ Len(last.outs) = Len(inputs)
            /\ \A i \in 1..Len(inputs) : last.outs[i] = predict(pre, inputs[i]).outs[1]
            /\ last.passes = Len(inputs)
       ELSE LET f == CHOOSE i \in failing : \A j \in failing : i <= j
            IN /\ last.err = predict(pre, inputs[f]).err
               /\ last.outs = <<>>
               /\ last.passes = (f - 1) + predict(pre, inputs[f]).passes

\* C12 witness: a batch of two whose first element fails validation and whose
\* second would have succeeded; no forward pass was started.
BatchStoppedAtFirstElement ==
  /\ last.op = "predict_batch"
  /\ ~IsNone(pre.model)
  /\ Len(last.shapes) = 2
  /\ predict(pre, last.shapes[1]).err = ErrInvalidShape
  /\ predict(pre, last.shapes[2]).err = ""
  /\ last.err = ErrInvalidShape
  /\ last.passes = 0
  /\ last.outs = <<>>

\* C13: on an engine holding a pipeline, for a single-sample input the
\* pipeline accepts and 1 <= k <= number of classes, predict_top_k returns a
\* list of exactly k class indices and a list of exactly k probabilities,
\* each probability in [0, 1], the probabilities non-increasing, the indices
\* pairwise distinct and each in [0, number of classes).
TopKReturnsKIndicesAndKProbabilities ==
  (/\ last.op = "predict_top_k"
   /\ ~IsNone(pre.model)
   /\ predict(pre, last.shapes[1]).err = ""
   /\ samples_of(predict(pre, last.shapes[1]).outs[1]) = 1
   /\ 1 <= last.n
   /\ last.n <= classes_of(predict(pre, last.shapes[1]).outs[1]))
  => LET k == last.n
         idx == last.ret.idx
         probs == last.ret.probs
     IN /\ last.err = ""
        /\ last.ret.form = "list"
        /\ Len(idx) = k
        /\ Len(probs) = k
        /\ \A j \in 1..Len(probs) : 0 <= probs[j] /\ probs[j] <= 100
        /\ \A j \in 1..(Len(probs) - 1) : probs[j] >= probs[j + 1]
        /\ \A i, j \in 1..Len(idx) : idx[i] = idx[j] => i = j
        /\ \A j \in 1..Len(idx) :
             0 <= idx[j] /\ idx[j] < classes_of(predict(pre, last.shapes[1]).outs[1])

\* The input of the last call is one the engine validates and the pipeline
\* accepts.
LastInputAccepted == ~IsNone(pre.model) /\ predict(pre, last.shapes[1]).err = ""

\* What C14 promises of a predict_class call that returned: one class index
\* in range and one probability in [0, 1], the largest of the softmax
\* distribution, which is the probability of the returned class.
ReturnedTheMostProbableClass ==
  LET dist == softmax(last.ret.row)
  IN /\ last.err = ""
     /\ last.ret.form = "scalar"
     /\ Len(last.ret.idx) = 1
     /\ Len(last.ret.probs) = 1
     /\ 0 <= last.ret.idx[1]
     /\ last.ret.idx[1] < classes_of(predict(pre, last.shapes[1]).outs[1])
     /\ 0 <= last.ret.probs[1]
     /\ last.ret.probs[1] <= 100
     /\ last.ret.probs[1] = max_seq(dist)
     /\ last.ret.probs[1] = dist[last.ret.idx[1] + 1]

\* C14 as stated: every input that passes validation, of any batch size, is
\* classified.
ClassifiesEveryAcceptedInput ==
  (last.op = "predict_class" /\ LastInputAccepted) => ReturnedTheMostProbableClass

\* C14, amended: an accepted input whose output holds the scores of exactly
\* one sample is classified as promised; an accepted input whose output holds
\* several samples makes predict_class raise after its forward pass.
ClassifiesAcceptedSingleSamples ==
  (last.op = "predict_class" /\ LastInputAccepted) =>
    IF samples_of(predict(pre, last.shapes[1]).outs[1]) = 1
    THEN ReturnedTheMostProbableClass
    ELSE last.err = "RuntimeError" /\ last.passes = 1

\* C14 witness: scores 0 and 1 for one sample; class 1 is returned with
\* probability 2/3.
ClassifiedOneSample ==
  /\ last.op = "predict_class"
  /\ LastInputAccepted
  /\ last.shapes = << <<1, 2>> >>
  /\ last.ret.row = <<0, 1>>
  /\ last.err = ""
  /\ last.ret.idx = <<1>>
  /\ last.ret.probs = <<66>>

\* The last call is a load_model whose config was read and built into a
\* pipeline and whose weights file exists.
LoadReachedReadableWeights ==
  /\ last.op = "load_model"
  /\ set_config(pre, last.cpath).err = ""
  /\ set_model(set_config(pre, last.cpath).e).err = ""
  /\ weights_file(last.wpath, saved).kind # "absent"

\* C15: a load_model call that reaches the weight loader with a readable
\* weights file returns normally and leaves the engine holding the config
\* and a pipeline: bound from the file when the native format binds, and
\* otherwise, through the JSON fallback, with every parameter at its
\* default-initialized value.
ReadableWeightsNeverFailTheLoad ==
  LoadReachedReadableWeights =>
    LET blob == weights_file(last.wpath, saved)
        fresh == Get(set_model(set_config(pre, last.cpath).e).e.model)
        binds == blob.kind = "native" /\ load_state_dict(fresh, blob).err = ""
    IN /\ last.err = ""
       /\ config = Some(config_doc(last.cpath))
       /\ ~IsNone(model)
       /\ Get(model).builtFrom = config_doc(last.cpath)
       /\ IF binds
          THEN Get(model).loader = "native" /\ Get(model).params = blob.vals
          ELSE /\ Get(model).loader = "json"
               /\ \A e \in DOMAIN Get(model).params : Get(model).params[e] = "init"

\* The Loaded state of the engine fields e: a config and a pipeline built from
\* it that went through the weight loader.
Loaded(e) ==
  /\ ~IsNone(e.config)
  /\ ~IsNone(e.model)
  /\ Get(e.model).builtFrom = Get(e.config)
  /\ Get(e.model).loader # "none"

\* The last call loaded the file save_model wrote from a Loaded engine, with
\* the config that engine held.
ReloadedSavedFile ==
  /\ last.op = "load_model"
  /\ last.wpath = "saved.pth"
  /\ ~IsNone(saved)
  /\ Loaded(Get(saved).by)
  /\ config_kind(last.cpath) = "dict"
  /\ config_doc(last.cpath) = Get(Get(saved).by.config)

\* C16: save_model on a Loaded engine followed by load_model with the same
\* config and the saved file, on the same engine or on a new one, returns
\* normally through the native branch of the weight loader with the stages
\* and the parameter values of the engine that saved, in inference mode, so
\* predict gives the same result on every input.
SaveThenLoadRestoresParameters ==
  ReloadedSavedFile =>
    LET by == Get(saved).by
    IN /\ last.err = ""
       /\ Get(model).loader = "native"
       /\ Get(model).stages = Get(by.model).stages
       /\ Get(model).params = Get(by.model).params
       /\ Get(model).training = Get(by.model).training
       /\ \A shape \in InputShapes :
            /\ predict(Engine(config, model), shape).err = predict(by, shape).err
            /\ predict(Engine(config, model), shape).outs = predict(by, shape).outs

\* C16 witness: trained weights saved by one engine and loaded by a new one.
ReloadedOnNewEngine ==
  /\ ReloadedSavedFile
  /\ pre = Engine(None, None)
  /\ last.err = ""
  /\ Get(model).loader = "native"
  /\ \A e \in DOMAIN Get(model).params : Get(model).params[e] = "wa"
  /\ DOMAIN Get(model).params # {}

\* C17: on an engine holding a pipeline, for an input the pipeline accepts
\* and n >= 1, benchmark runs 10 untimed passes and n timed ones and returns
\* average, minimum, maximum and standard deviation of exactly those n
\* latencies, with min <= avg <= max and all four defined and non-negative.
BenchmarkFiguresDefinedAndOrdered ==
  (/\ last.op = "benchmark"
   /\ ~IsNone(pre.model)
   /\ forward(Get(pre.model), 1, last.shapes[1]).err = ""
   /\ last.n >= 1)
  => LET st == last.ret.stats
     IN /\ last.err = ""
        /\ last.passes = 10 + last.n
        /\ st.n = last.n
        /\ st.min * st.n <= st.total
        /\ st.total <= st.max * st.n
        /\ ~st.nan
        /\ st.min >= 0
        /\ st.total >= 0
        /\ st.max >= 0
        /\ st.ssd >= 0

NonLoadOperations ==
  {"predict", "predict_batch", "predict_class", "predict_class_name", "predict_top_k",
   "warmup", "benchmark", "get_model_info", "save_model"}

\* C18: a call of any operation other than load_model, whether it returns or
\* raises, leaves self.config and the pipeline (stages, parameters and
\* buffers, mode) exactly as they were when the call began.
NonLoadOperationsLeaveEngineUnchanged ==
  last.op \in NonLoadOperations => (config = pre.config /\ model = pre.model)

====
